---- MODULE Spec2Model ----
(***************************************************************************)
(* Product Details Viewer (web_app.py): the content formatter              *)
(* format_content_locally and the script that loads the record store,      *)
(* selects a record and renders it.                                        *)
(*                                                                         *)
(* Text is a sequence of one-character strings.  The regular expressions   *)
(* of the source are modelled by what Python's re module does with them:   *)
(* a left-to-right scan for the leftmost match, alternatives tried in      *)
(* order, greedy repetition, the scan resumed after the end of a match.    *)
(* The operators recurse from one match to the next, not from one          *)
(* character to the next.                                                  *)
(***************************************************************************)
EXTENDS Integers, Sequences, FiniteSets, TLC

(***************************************************************************)
(* Bounds of the model.                                                    *)
(***************************************************************************)
\* the longest content of a single-record store, in tokens of Tokens
MaxTokens == 3
\* the largest multi-record store
MaxRows == 2

(***************************************************************************)
(* Character classes of Python's re (ASCII part) and string helpers.       *)
(***************************************************************************)
UpperCase ==
    <<"A", "B", "C", "D", "E", "F", "G", "H", "I", "J", "K", "L", "M",
      "N", "O", "P", "Q", "R", "S", "T", "U", "V", "W", "X", "Y", "Z">>

LowerCase ==
    <<"a", "b", "c", "d", "e", "f", "g", "h", "i", "j", "k", "l", "m",
      "n", "o", "p", "q", "r", "s", "t", "u", "v", "w", "x", "y", "z">>

Digits == {"0", "1", "2", "3", "4", "5", "6", "7", "8", "9"}

WordChars ==
    Digits \cup {"_"} \cup {UpperCase[i] : i \in 1..26} \cup {LowerCase[i] : i \in 1..26}

\* \w : letters, digits and the underscore
IsWord(c) == c \in WordChars

\* \s, and the characters str.strip() removes
IsSpace(c) == c \in {" ", "\n", "\t"}

UpperChars == {UpperCase[i] : i \in 1..26}

Fold == [c \in UpperChars |-> LowerCase[CHOOSE i \in 1..26 : c = UpperCase[i]]]

\* the case folding of re.IGNORECASE
Lower(c) == IF c \in UpperChars THEN Fold[c] ELSE c

\* whether the character at index i of text is a word character; the two
\* ends of the text count as non-word
WordAt(text, i) == i >= 1 /\ i <= Len(text) /\ IsWord(text[i])

\* \b between index i-1 and index i
Boundary(text, i) == WordAt(text, i - 1) # WordAt(text, i)

\* text has the literal lit at index p
HasAt(text, lit, p) ==
    /\ p >= 1
    /\ p + Len(lit) - 1 <= Len(text)
    /\ \A j \in 1..Len(lit) : text[p + j - 1] = lit[j]

\* the same under re.IGNORECASE
HasAtIgnoreCase(text, lit, p) ==
    /\ p >= 1
    /\ p + Len(lit) - 1 <= Len(text)
    /\ \A j \in 1..Len(lit) : Lower(text[p + j - 1]) = Lower(lit[j])

\* the least element of a non-empty set of indices
Min(S) == CHOOSE i \in S : \A j \in S : i <= j

\* the greatest element of a non-empty set of indices
Max(S) == CHOOSE i \in S : \A j \in S : i >= j

\* str.strip(): the text between its first and its last non-space character
Strip(s) ==
    LET kept == {i \in 1..Len(s) : ~IsSpace(s[i])}
    IN  IF kept = {} THEN <<>> ELSE SubSeq(s, Min(kept), Max(kept))

\* sep.join(parts)
RECURSIVE Join(_, _)
Join(sep, parts) ==
    IF parts = <<>> THEN <<>>
    ELSE IF Len(parts) = 1 THEN parts[1]
    ELSE parts[1] \o sep \o Join(sep, Tail(parts))

(***************************************************************************)
(* Keyword emphasis: lines 24-25 and the loops of lines 38-40, 58-59 and   *)
(* 108-112.                                                                *)
(***************************************************************************)
keywords_to_highlight ==
    << <<"U", "n", "i", "t">>,
       <<"V", "a", "l", "u", "e">>,
       <<"B", "u", "l", "l", "e", "t", " ", "P", "o", "i", "n", "t">>,
       <<"B", "u", "l", "l", "e", "t", " ", "P", "o", "i", "n">>,
       <<"I", "t", "e", "m", " ", "N", "a", "m", "e">> >>

\* highlight_template is OpenTag \1 CloseTag
OpenTag ==
    <<"<", "s", "p", "a", "n", " ", "s", "t", "y", "l", "e", "=", "\"",
      "c", "o", "l", "o", "r", ":", "r", "e", "d", ";", " ",
      "f", "o", "n", "t", "-", "w", "e", "i", "g", "h", "t", ":",
      "b", "o", "l", "d", ";", "\"", ">">>

CloseTag == <<"<", "/", "s", "p", "a", "n", ">">>

highlight_template(group1) == OpenTag \o group1 \o CloseTag

\* a mutant of KeywordMatch: the pattern without its closing \b
KeywordMatchNoEndBoundary(keyword, text, p) ==
    /\ HasAtIgnoreCase(text, keyword, p)
    /\ Boundary(text, p)

\* a mutant of KeywordMatch: the pattern without re.IGNORECASE
KeywordMatchCaseSensitive(keyword, text, p) ==
    /\ HasAt(text, keyword, p)
    /\ Boundary(text, p)
    /\ Boundary(text, p + Len(keyword))

\* the pattern \b(keyword)\b, re.IGNORECASE, matches text at index p
KeywordMatch(keyword, text, p) ==
    /\ HasAtIgnoreCase(text, keyword, p)
    /\ Boundary(text, p)
    /\ Boundary(text, p + Len(keyword))

\* the indices of text the pattern matches at
KeywordMatches(keyword, text) ==
    {q \in 1..Len(text) : KeywordMatch(keyword, text, q)}

\* re.sub(pattern, highlight_template, text) from index p on, matches
\* being the indices the pattern matches at: the leftmost match at or
\* after p is replaced and the scan resumes behind it; the rest is copied
RECURSIVE SubFrom(_, _, _, _)
SubFrom(keyword, text, matches, p) ==
    LET ahead == {q \in matches : q >= p}
    IN  IF ahead = {} THEN SubSeq(text, p, Len(text))
        ELSE SubSeq(text, p, Min(ahead) - 1)
                 \o highlight_template(
                        SubSeq(text, Min(ahead), Min(ahead) + Len(keyword) - 1))
                 \o SubFrom(keyword, text, matches, Min(ahead) + Len(keyword))

ReSub(keyword, text) == SubFrom(keyword, text, KeywordMatches(keyword, text), 1)

\* the loop over the keyword list, each pass over the output of the
\* previous one; HighlightUpTo(text, 0) is the text before the first pass
RECURSIVE HighlightUpTo(_, _)
HighlightUpTo(text, k) ==
    IF k = 0 THEN text
    ELSE ReSub(keywords_to_highlight[k], HighlightUpTo(text, k - 1))

Highlight(text) == HighlightUpTo(text, Len(keywords_to_highlight))

(***************************************************************************)
(* format_content_locally, lines 18-64.                                    *)
(***************************************************************************)
\* [\w\s\d]* from index q: the index after the longest run of word and
\* space characters
KeyClassRun(text, q) ==
    LET stops == {r \in q..Len(text) : ~(IsWord(text[r]) \/ IsSpace(text[r]))}
    IN  IF stops = {} THEN Len(text) + 1 ELSE Min(stops)

\* the pattern (\w[\w\s\d]*:) at index p: the index of the colon closing
\* the match, 0 when there is no match at p.  The class holds no colon, so
\* the greedy run ends before the first colon and no shorter run is
\* followed by one.
KeyEnd(text, p) ==
    IF p <= Len(text) /\ IsWord(text[p])
    THEN LET q == KeyClassRun(text, p + 1)
         IN  IF q <= Len(text) /\ text[q] = ":" THEN q ELSE 0
    ELSE 0

\* the index of the leftmost match of the key pattern at or after index
\* p, 0 without one
NextKey(text, p) ==
    LET starts == {q \in p..Len(text) : KeyEnd(text, q) > 0}
    IN  IF starts = {} THEN 0 ELSE Min(starts)

\* a mutant of FindKeys: the scan resumes one character after the start of
\* a match, so that matches overlap
RECURSIVE FindKeysOverlapping(_, _)
FindKeysOverlapping(text, p) ==
    LET q == NextKey(text, p)
    IN  IF q = 0 THEN <<>>
        ELSE <<SubSeq(text, q, KeyEnd(text, q))>> \o FindKeysOverlapping(text, q + 1)

\* re.findall(r'(\w[\w\s\d]*:)', text) from index p on, line 28
RECURSIVE FindKeys(_, _)
FindKeys(text, p) ==
    LET q == NextKey(text, p)
    IN  IF q = 0 THEN <<>>
        ELSE <<SubSeq(text, q, KeyEnd(text, q))>>
                 \o FindKeys(text, KeyEnd(text, q) + 1)

\* split_pattern, line 44, is the alternation of the escaped keys: at index
\* p the first alternative that matches decides; the length of its match,
\* 0 when none matches
AltMatchLen(alternatives, text, p) ==
    IF \E i \in 1..Len(alternatives) : HasAt(text, alternatives[i], p)
    THEN Len(alternatives[CHOOSE i \in 1..Len(alternatives) :
                 /\ HasAt(text, alternatives[i], p)
                 /\ \A j \in 1..(i - 1) : ~HasAt(text, alternatives[j], p)])
    ELSE 0

\* the index of the leftmost match of split_pattern at or after index p,
\* 0 without one
NextAltMatch(alternatives, text, p) ==
    LET starts == {q \in p..Len(text) : AltMatchLen(alternatives, text, q) > 0}
    IN  IF starts = {} THEN 0 ELSE Min(starts)

\* a mutant of ReSplit: a trailing empty piece is dropped, as by a split
\* that removes empty strings at the end
RECURSIVE ReSplitDropTrailingEmpty(_, _, _)
ReSplitDropTrailingEmpty(alternatives, text, p) ==
    LET q == NextAltMatch(alternatives, text, p)
        m == AltMatchLen(alternatives, text, q)
    IN  IF q = 0
        THEN IF p > Len(text) THEN <<>> ELSE <<SubSeq(text, p, Len(text))>>
        ELSE <<SubSeq(text, p, q - 1), SubSeq(text, q, q + m - 1)>>
                 \o ReSplitDropTrailingEmpty(alternatives, text, q + m)

\* re.split(f'({split_pattern})', text) from index p on, line 45: the
\* text between the matches and, the pattern being one group, the matches
\* themselves
RECURSIVE ReSplit(_, _, _)
ReSplit(alternatives, text, p) ==
    LET q == NextAltMatch(alternatives, text, p)
        m == AltMatchLen(alternatives, text, q)
    IN  IF q = 0 THEN <<SubSeq(text, p, Len(text))>>
        ELSE <<SubSeq(text, p, q - 1), SubSeq(text, q, q + m - 1)>>
                 \o ReSplit(alternatives, text, q + m)

\* \s+ from index q: the index after the longest run of space characters
SpaceRun(text, q) ==
    LET stops == {r \in q..Len(text) : ~IsSpace(text[r])}
    IN  IF stops = {} THEN Len(text) + 1 ELSE Min(stops)

\* the pattern (?<=[.!?])\s+ matches at index p
SentenceBreakAt(text, p) ==
    /\ p > 1
    /\ p <= Len(text)
    /\ text[p - 1] \in {".", "!", "?"}
    /\ IsSpace(text[p])

\* the index of the leftmost sentence break at or after index p, 0
\* without one
NextSentenceBreak(text, p) ==
    LET starts == {q \in p..Len(text) : SentenceBreakAt(text, q)}
    IN  IF starts = {} THEN 0 ELSE Min(starts)

\* re.split(r'(?<=[.!?])\s+', text) from index p on, line 32
RECURSIVE SplitSentences(_, _)
SplitSentences(text, p) ==
    LET q == NextSentenceBreak(text, p)
    IN  IF q = 0 THEN <<SubSeq(text, p, Len(text))>>
        ELSE <<SubSeq(text, p, q - 1)>> \o SplitSentences(text, SpaceRun(text, q))

Bullet == <<"&", "b", "u", "l", "l", ";", " ">>

\* a mutant of BulletLines: the sentences are not stripped
RECURSIVE BulletLinesUnstripped(_)
BulletLinesUnstripped(sentences) ==
    IF sentences = <<>> THEN <<>>
    ELSE IF Strip(Head(sentences)) # <<>>
         THEN <<Bullet \o Head(sentences)>> \o BulletLinesUnstripped(Tail(sentences))
         ELSE BulletLinesUnstripped(Tail(sentences))

\* [f"&bull; {s.strip()}" for s in sentences if s.strip()], line 34
RECURSIVE BulletLines(_)
BulletLines(sentences) ==
    IF sentences = <<>> THEN <<>>
    ELSE IF Strip(Head(sentences)) # <<>>
         THEN <<Bullet \o Strip(Head(sentences))>> \o BulletLines(Tail(sentences))
         ELSE BulletLines(Tail(sentences))

\* the branch of lines 31-41
NoKeysBranch(text) ==
    LET sentences == SplitSentences(text, 1)
        bullet_list == Join(<<"\n">>, BulletLines(sentences))
    IN  [raised |-> FALSE,
         keys |-> <<>>,
         sentences |-> sentences,
         values |-> <<>>,
         pairs |-> <<>>,
         result |-> Highlight(bullet_list)]

\* lines 50-51 for the Python index i: values[i] and values[i+1], which
\* are the elements i+1 and i+2 of the sequence
PairAt(values, i) ==
    [key |-> Strip(values[i + 1]), value |-> Strip(values[i + 2])]

\* the loop of lines 49-61, for i in range(i, len(values), 2): the pairs
\* emitted, and whether values[i+1] raised IndexError
RECURSIVE PairLoop(_, _)
PairLoop(values, i) ==
    IF i >= Len(values) THEN [raised |-> FALSE, pairs |-> <<>>]
    ELSE IF i + 1 >= Len(values) THEN [raised |-> TRUE, pairs |-> <<>>]
    ELSE LET rest == PairLoop(values, i + 2)
         IN  [raised |-> rest.raised,
              pairs |-> <<PairAt(values, i)>> \o rest.pairs]

\* a mutant of FormatLine: the keyword loop runs over the whole line, key
\* included
FormatLineHighlightsKey(pair) ==
    Highlight(<<"*", "*">> \o pair.key \o <<"*", "*">> \o <<" ">> \o pair.value)

\* line 54 and 57-61: f"{bold_key} {processed_value}"
FormatLine(pair) ==
    <<"*", "*">> \o pair.key \o <<"*", "*">> \o <<" ">> \o Highlight(pair.value)

RECURSIVE FormatLines(_)
FormatLines(pairs) ==
    IF pairs = <<>> THEN <<>>
    ELSE <<FormatLine(Head(pairs))>> \o FormatLines(Tail(pairs))

\* the branch of lines 43-64
KeysBranch(text, keys) ==
    LET values == ReSplit(keys, text, 1)
        loop == PairLoop(values, 1)
    IN  [raised |-> loop.raised,
         keys |-> keys,
         sentences |-> <<>>,
         values |-> values,
         pairs |-> loop.pairs,
         result |-> IF loop.raised THEN <<>>
                    ELSE Join(<<"\n", "\n">>, FormatLines(loop.pairs))]

\* format_content_locally(text): its locals and its return value
format_content_locally(text) ==
    LET keys == FindKeys(text, 1)
    IN  IF keys = <<>> THEN NoKeysBranch(text) ELSE KeysBranch(text, keys)

(***************************************************************************)
(* The record store: dataset/train.csv as pandas reads it.  A cell is      *)
(* [na |-> TRUE] for an empty field (NaN), [na |-> FALSE, v |-> n] for a   *)
(* number and [na |-> FALSE, s |-> text] for text.                         *)
(***************************************************************************)
NaN == [na |-> TRUE]

Num(n) == [na |-> FALSE, v |-> n]

Text(t) == [na |-> FALSE, s |-> t]

\* what selectbox returns when it has no options
None == [none |-> TRUE]

\* line 75
required_columns == {"sample_id", "image_link", "catalog_content"}

\* the tokens the contents of the model are written with
Tokens ==
    << <<"U", "n", "i", "t">>,
       <<"u", "n", "i", "t">>,
       <<"B", "u", "l", "l", "e", "t", " ", "P", "o", "i", "n">>,
       <<"I", "t", "e", "m", " ", "N", "a", "m", "e">>,
       <<"s">>,
       <<"t">>,
       <<"s", ":">>,
       <<":">>,
       <<" ">>,
       <<"\n">>,
       <<".">> >>

RECURSIVE Concat(_)
Concat(parts) == IF parts = <<>> THEN <<>> ELSE Head(parts) \o Concat(Tail(parts))

\* every text of 1..MaxTokens tokens.  An empty field is read as NaN, so
\* no cell holds the empty text.
Contents ==
    UNION { { Concat([i \in 1..n |-> Tokens[f[i]]]) :
                f \in [1..n -> 1..Len(Tokens)] } : n \in 1..MaxTokens }

\* the contents of the stores of several records
\* "s. Item Name: unit Units. \n Name: Value"
KeyedContent ==
    <<"s", ".", " ", "I", "t", "e", "m", " ", "N", "a", "m", "e",
        ":", " ", "u", "n", "i", "t", " ", "U", "n", "i", "t", "s",
        ".", " ", "\n", " ", "N", "a", "m", "e", ":", " ", "V", "a",
        "l", "u", "e">>

\* "Bullet Point one.  BULLET POIN two!\nUnity is\nnot a unit?"
ProseContent ==
    <<"B", "u", "l", "l", "e", "t", " ", "P", "o", "i", "n", "t",
        " ", "o", "n", "e", ".", " ", " ", "B", "U", "L", "L", "E",
        "T", " ", "P", "O", "I", "N", " ", "t", "w", "o", "!", "\n",
        "U", "n", "i", "t", "y", " ", "i", "s", "\n", "n", "o", "t",
        " ", "a", " ", "u", "n", "i", "t", "?">>

SmallContents == {KeyedContent, ProseContent}

ImageLink == Text(<<"u", "r", "l">>)

\* a record over the columns cols
Row(cols, id, content) ==
    [c \in cols |-> IF c = "sample_id" THEN id
                    ELSE IF c = "catalog_content" THEN content
                    ELSE ImageLink]

\* stores of one record, over every content
SingleRecordStores ==
    { <<Row(required_columns, Num(1), c)>> :
        c \in {NaN} \cup {Text(t) : t \in Contents} }

\* stores of 0..MaxRows records, over every identifier
SmallRows ==
    { Row(required_columns, id, c) :
        id \in {Num(0), Num(1), NaN},
        c \in {NaN} \cup {Text(t) : t \in SmallContents} }

SmallStores == UNION { [1..n -> SmallRows] : n \in 0..MaxRows }

VARIABLES
    csv_exists,           \* os.path.exists(CSV_PATH)
    csv_parses,           \* pd.read_csv(CSV_PATH) returns a frame
    df_columns,           \* df.columns
    df,                   \* the records of the frame
    pc,                   \* the position in the script
    selected_id,          \* line 81
    product_row,          \* the index in df of product_details, 0 before
    raw_description,      \* line 92
    call,                 \* the locals and result of format_content_locally
    formatted_description,\* line 100
    highlighted_raw_text, \* line 110-112
    format_calls,         \* calls of format_content_locally in this run
    raw_highlights,       \* runs of the raw-text highlight loop in this run
    message               \* what st.error reported in this run

vars ==
    <<csv_exists, csv_parses, df_columns, df, pc, selected_id, product_row,
      raw_description, call, formatted_description, highlighted_raw_text,
      format_calls, raw_highlights, message>>

source == <<csv_exists, csv_parses, df_columns, df>>

NoCall ==
    [raised |-> FALSE, keys |-> <<>>, sentences |-> <<>>, values |-> <<>>,
     pairs |-> <<>>, result |-> <<>>]

\* the state of a run of the script before its first statement
RunStart ==
    /\ pc = "start"
    /\ selected_id = None
    /\ product_row = 0
    /\ raw_description = <<>>
    /\ call = NoCall
    /\ formatted_description = <<>>
    /\ highlighted_raw_text = <<>>
    /\ format_calls = 0
    /\ raw_highlights = 0
    /\ message = "none"

Init ==
    /\ RunStart
    /\ \/ /\ csv_exists = FALSE
          /\ csv_parses = FALSE
          /\ df_columns = {}
          /\ df = <<>>
       \/ /\ csv_exists = TRUE
          /\ csv_parses = FALSE
          /\ df_columns = {}
          /\ df = <<>>
       \/ /\ csv_exists = TRUE
          /\ csv_parses = TRUE
          /\ df_columns \in (SUBSET required_columns) \ {required_columns}
          /\ df = <<Row(df_columns, Num(1), Text(<<"U", "n", "i", "t">>))>>
       \/ /\ csv_exists = TRUE
          /\ csv_parses = TRUE
          /\ df_columns = required_columns
          /\ df \in SingleRecordStores \cup SmallStores

\* a mutant of HasRequiredColumns: any() for all()
HasSomeRequiredColumn == required_columns \cap df_columns # {}

\* all(col in df.columns for col in required_columns), line 76
HasRequiredColumns == required_columns \subseteq df_columns

\* product_details.get(key, default), line 92
SeriesGet(row, key, default) == IF key \in DOMAIN row THEN row[key] ELSE default

FallbackText ==
    <<"N", "o", " ", "d", "e", "s", "c", "r", "i", "p", "t", "i", "o", "n", " ",
      "a", "v", "a", "i", "l", "a", "b", "l", "e", ".">>

\* str(cell) of a content cell: str(float('nan')) is 'nan'
Str(cell) == IF cell.na THEN <<"n", "a", "n">> ELSE cell.s

\* a == b elementwise in df['sample_id'] == selected_id: NaN equals nothing
CellEq(a, b) == IF a.na \/ b.na THEN FALSE ELSE a = b

\* bool(selected_id), line 86: None and 0 are false, NaN is true
Truthy(x) == IF x = None THEN FALSE ELSE IF x.na THEN TRUE ELSE x.v # 0

\* the test of line 86
Selected(x) == Truthy(x)

\* df['sample_id'].unique(), line 80
sample_ids == { df[i]["sample_id"] : i \in 1..Len(df) }

\* the indices of df[df['sample_id'] == selected_id], line 87
Matching(x) == { i \in 1..Len(df) : CellEq(df[i]["sample_id"], x) }

(***************************************************************************)
(* The script, lines 71-143, one run per display refresh.                  *)
(***************************************************************************)
\* lines 71, 135-143: the file is not there
FileMissing ==
    /\ pc = "start"
    /\ ~csv_exists
    /\ message' = "file_not_found"
    /\ pc' = "done"
    /\ UNCHANGED <<source, selected_id, product_row, raw_description, call,
                   formatted_description, highlighted_raw_text, format_calls,
                   raw_highlights>>

\* lines 73, 133-134: read_csv raises
ReadFails ==
    /\ pc = "start"
    /\ csv_exists
    /\ ~csv_parses
    /\ message' = "exception"
    /\ pc' = "done"
    /\ UNCHANGED <<source, selected_id, product_row, raw_description, call,
                   formatted_description, highlighted_raw_text, format_calls,
                   raw_highlights>>

\* lines 76-77: a required column is missing
ColumnsMissing ==
    /\ pc = "start"
    /\ csv_exists
    /\ csv_parses
    /\ ~HasRequiredColumns
    /\ message' = "missing_columns"
    /\ pc' = "done"
    /\ UNCHANGED <<source, selected_id, product_row, raw_description, call,
                   formatted_description, highlighted_raw_text, format_calls,
                   raw_highlights>>

\* lines 79-84: the selectbox returns one of its options, None without any;
\* df['sample_id'] raises KeyError without the column
SelectProduct ==
    /\ pc = "start"
    /\ csv_exists
    /\ csv_parses
    /\ HasRequiredColumns
    /\ IF "sample_id" \notin df_columns
       THEN /\ message' = "exception"
            /\ pc' = "done"
            /\ UNCHANGED selected_id
       ELSE /\ IF sample_ids = {}
               THEN selected_id' = None
               ELSE selected_id' \in sample_ids
            /\ pc' = "selected"
            /\ UNCHANGED message
    /\ UNCHANGED <<source, product_row, raw_description, call,
                   formatted_description, highlighted_raw_text, format_calls,
                   raw_highlights>>

\* line 86: the test fails and the run ends
NothingSelected ==
    /\ pc = "selected"
    /\ ~Selected(selected_id)
    /\ pc' = "done"
    /\ UNCHANGED <<source, selected_id, product_row, raw_description, call,
                   formatted_description, highlighted_raw_text, format_calls,
                   raw_highlights, message>>

\* line 87: no record equals the selection and iloc[0] raises IndexError
LookupFails ==
    /\ pc = "selected"
    /\ Selected(selected_id)
    /\ Matching(selected_id) = {}
    /\ message' = "exception"
    /\ pc' = "done"
    /\ UNCHANGED <<source, selected_id, product_row, raw_description, call,
                   formatted_description, highlighted_raw_text, format_calls,
                   raw_highlights>>

\* lines 87-114: the first matching record, its description formatted and
\* its raw text highlighted
RenderDescription ==
    /\ pc = "selected"
    /\ Selected(selected_id)
    /\ Matching(selected_id) # {}
    /\ product_row' = Min(Matching(selected_id))
    /\ raw_description' =
           Str(SeriesGet(df[product_row'], "catalog_content", Text(FallbackText)))
    /\ call' = format_content_locally(raw_description')
    /\ format_calls' = format_calls + 1
    /\ IF call'.raised
       THEN /\ message' = "exception"
            /\ pc' = "done"
            /\ UNCHANGED <<formatted_description, highlighted_raw_text,
                           raw_highlights>>
       ELSE /\ formatted_description' = call'.result
            /\ highlighted_raw_text' = Highlight(raw_description')
            /\ raw_highlights' = raw_highlights + 1
            /\ pc' = "described"
            /\ UNCHANGED message
    /\ UNCHANGED <<source, selected_id>>

\* lines 116-131: the image and the table are shown
ShowImageAndDetails ==
    /\ pc = "described"
    /\ pc' = "done"
    /\ UNCHANGED <<source, selected_id, product_row, raw_description, call,
                   formatted_description, highlighted_raw_text, format_calls,
                   raw_highlights, message>>

\* lines 123, 133-134: st.image raises on the image reference
ImageFails ==
    /\ pc = "described"
    /\ message' = "exception"
    /\ pc' = "done"
    /\ UNCHANGED <<source, selected_id, product_row, raw_description, call,
                   formatted_description, highlighted_raw_text, format_calls,
                   raw_highlights>>

\* the next display refresh runs the script from its first line
Rerun ==
    /\ pc = "done"
    /\ pc' = "start"
    /\ selected_id' = None
    /\ product_row' = 0
    /\ raw_description' = <<>>
    /\ call' = NoCall
    /\ formatted_description' = <<>>
    /\ highlighted_raw_text' = <<>>
    /\ format_calls' = 0
    /\ raw_highlights' = 0
    /\ message' = "none"
    /\ UNCHANGED source

Next ==
    \/ FileMissing
    \/ ReadFails
    \/ ColumnsMissing
    \/ SelectProduct
    \/ NothingSelected
    \/ LookupFails
    \/ RenderDescription
    \/ ShowImageAndDetails
    \/ ImageFails
    \/ Rerun

Spec == Init /\ [][Next]_vars

(***************************************************************************)
(* Definitions the properties are stated with.                             *)
(***************************************************************************)
Rendered == pc = "described"

InKeysBranch == Rendered /\ call.keys # <<>>

InNoKeysBranch == Rendered /\ call.keys = <<>>

NL == <<"\n">>

Bold(key) == <<"*", "*">> \o key \o <<"*", "*">>

\* s is a suffix of t and shorter than t
ProperSuffix(s, t) ==
    /\ Len(s) < Len(t)
    /\ SubSeq(t, Len(t) - Len(s) + 1, Len(t)) = s

\* s without its leading white space
LStrip(s) ==
    LET kept == {i \in 1..Len(s) : ~IsSpace(s[i])}
    IN  IF kept = {} THEN <<>> ELSE SubSeq(s, Min(kept), Len(s))

\* kw stands in text at index p as a whole word, in any casing
WholeWordAt(text, kw, p) ==
    /\ HasAtIgnoreCase(text, kw, p)
    /\ ~WordAt(text, p - 1)
    /\ ~WordAt(text, p + Len(kw))

\* kw stands in text at index p inside a longer word
PartOfWordAt(text, kw, p) ==
    /\ HasAtIgnoreCase(text, kw, p)
    /\ (WordAt(text, p - 1) \/ WordAt(text, p + Len(kw)))

KeywordIndices == 1..Len(keywords_to_highlight)

\* some keyword stands at index p of text as a whole word
AnyWholeWordAt(text, p) ==
    \E k \in KeywordIndices : WholeWordAt(text, keywords_to_highlight[k], p)

\* the text from index p on with every whole-word keyword occurrence
\* wrapped, in one pass from left to right, and every other character
\* copied
RECURSIVE Emphasised(_, _)
Emphasised(text, p) ==
    LET found == {q \in p..Len(text) : AnyWholeWordAt(text, q)}
    IN  IF found = {} THEN SubSeq(text, p, Len(text))
        ELSE LET q == Min(found)
                 k == CHOOSE k \in KeywordIndices :
                          WholeWordAt(text, keywords_to_highlight[k], q)
                 n == Len(keywords_to_highlight[k])
             IN  SubSeq(text, p, q - 1)
                     \o OpenTag \o SubSeq(text, q, q + n - 1) \o CloseTag
                     \o Emphasised(text, q + n)

\* the places lit stands at in text
PlacesOf(lit, text) == {p \in 1..Len(text) : HasAt(text, lit, p)}

CountOf(lit, text) == Cardinality(PlacesOf(lit, text))

\* the text from index p on without the emphasis tags
RECURSIVE StripSpans(_, _)
StripSpans(text, p) ==
    LET tags == {q \in p..Len(text) :
                    HasAt(text, OpenTag, q) \/ HasAt(text, CloseTag, q)}
    IN  IF tags = {} THEN SubSeq(text, p, Len(text))
        ELSE LET q == Min(tags)
                 n == IF HasAt(text, OpenTag, q) THEN Len(OpenTag) ELSE Len(CloseTag)
             IN  SubSeq(text, p, q - 1) \o StripSpans(text, q + n)

\* the number of spans open at index p, opens and closes being the places
\* of the opening and of the closing tags: opening tags that start at or
\* before p less closing tags that start at or before p
DepthAt(opens, closes, p) ==
    Cardinality({o \in opens : o <= p}) - Cardinality({c \in closes : c <= p})

\* index p of text lies in the text of a closing tag
InCloseTag(text, p) ==
    \E c \in (p - Len(CloseTag) + 1)..p : HasAt(text, CloseTag, c)

\* no match of the pass of kw in text starts inside a tag or between an
\* opening tag and its closing tag
MatchesOutsideMarkup(kw, text) ==
    LET opens == PlacesOf(OpenTag, text)
        closes == PlacesOf(CloseTag, text)
    IN  \A p \in KeywordMatches(kw, text) :
            DepthAt(opens, closes, p) = 0 /\ ~InCloseTag(text, p)

\* the spans of text open and close in turn and never nest
SpansFlat(text) ==
    LET opens == PlacesOf(OpenTag, text)
        closes == PlacesOf(CloseTag, text)
    IN  /\ Cardinality(opens) = Cardinality(closes)
        /\ \A o \in opens :
               Cardinality({x \in opens : x < o}) = Cardinality({c \in closes : c < o})
        /\ \A c \in closes :
               Cardinality({x \in closes : x < c}) + 1 = Cardinality({o \in opens : o < c})

\* the text before the first pass and after each pass: element k + 1 is
\* the text after pass k
RECURSIVE PassTexts(_, _)
PassTexts(text, k) ==
    IF k = 0 THEN <<text>>
    ELSE LET before == PassTexts(text, k - 1)
         IN  Append(before, ReSub(keywords_to_highlight[k], before[k]))

\* the matches of the passes 1..k, each pass counted on the text it ran on
RECURSIVE MatchesOfPasses(_, _)
MatchesOfPasses(texts, k) ==
    IF k = 0 THEN 0
    ELSE Cardinality(KeywordMatches(keywords_to_highlight[k], texts[k]))
             + MatchesOfPasses(texts, k - 1)

TotalMatches(text) ==
    MatchesOfPasses(PassTexts(text, Len(keywords_to_highlight)),
                    Len(keywords_to_highlight))

\* the keyword passes over text never touch the markup of earlier passes
MarkupSafe(text) ==
    LET texts == PassTexts(text, Len(keywords_to_highlight))
        final == texts[Len(texts)]
        total == MatchesOfPasses(texts, Len(keywords_to_highlight))
    IN  /\ \A k \in KeywordIndices :
               MatchesOutsideMarkup(keywords_to_highlight[k], texts[k])
        /\ SpansFlat(final)
        /\ CountOf(OpenTag, final) = total
        /\ CountOf(CloseTag, final) = total

\* a sentence ends at index p of text: '.', '!' or '?' before white space
SentenceEndAt(text, p) ==
    /\ p < Len(text)
    /\ text[p] \in {".", "!", "?"}
    /\ IsSpace(text[p + 1])

\* the index of the first character at or after index p that is no white
\* space, Len(text) + 1 without one
SkipSpace(text, p) ==
    IF \E q \in p..Len(text) : ~IsSpace(text[q])
    THEN CHOOSE q \in p..Len(text) :
             ~IsSpace(text[q]) /\ \A r \in p..(q - 1) : IsSpace(text[r])
    ELSE Len(text) + 1

\* the sentence fragments of text from index p on: each runs to the next
\* sentence end, the next one starts after the white space behind it
RECURSIVE Fragments(_, _)
Fragments(text, p) ==
    LET ends == {e \in p..Len(text) : SentenceEndAt(text, e)}
    IN  IF ends = {} THEN <<SubSeq(text, p, Len(text))>>
        ELSE <<SubSeq(text, p, Min(ends))>>
                 \o Fragments(text, SkipSpace(text, Min(ends) + 1))

\* the fragments trimmed, the empty ones dropped, each behind a bullet
RECURSIVE Bulleted(_)
Bulleted(frags) ==
    IF frags = <<>> THEN <<>>
    ELSE IF \A i \in 1..Len(Head(frags)) : IsSpace(Head(frags)[i])
         THEN Bulleted(Tail(frags))
         ELSE <<Bullet \o Strip(Head(frags))>> \o Bulleted(Tail(frags))

\* every line of text starts with the bullet glyph
EveryLineBulleted(text) ==
    \A p \in 1..Len(text) : (p = 1 \/ text[p - 1] = "\n") => HasAt(text, Bullet, p)

\* the index of the first key of text, 0 without one: a word character
\* from which only word and space characters lead to a colon
FirstKeyStart(text) ==
    LET starts == {p \in 1..Len(text) :
                      /\ IsWord(text[p])
                      /\ \E c \in (p + 1)..Len(text) :
                             /\ text[c] = ":"
                             /\ \A r \in (p + 1)..(c - 1) :
                                    IsWord(text[r]) \/ IsSpace(text[r])}
    IN  IF starts = {} THEN 0 ELSE Min(starts)

\* rest is the keys and values of pairs in turn, with white space allowed
\* before and after each value
RECURSIVE Rebuilds(_, _)
Rebuilds(rest, pairs) ==
    IF pairs = <<>> THEN rest = <<>>
    ELSE LET k == Head(pairs).key
             v == Head(pairs).value
             afterKey == LStrip(SubSeq(rest, Len(k) + 1, Len(rest)))
         IN  /\ HasAt(rest, k, 1)
             /\ HasAt(afterKey, v, 1) \/ v = <<>>
             /\ Rebuilds(LStrip(SubSeq(afterKey, Len(v) + 1, Len(afterKey))),
                         Tail(pairs))

\* the line of a pair before any markup is added
PlainLine(pair) == Bold(pair.key) \o <<" ">> \o pair.value

RECURSIVE PlainLines(_)
PlainLines(pairs) ==
    IF pairs = <<>> THEN <<>>
    ELSE <<PlainLine(Head(pairs))>> \o PlainLines(Tail(pairs))

RECURSIVE SpansOfValues(_)
SpansOfValues(pairs) ==
    IF pairs = <<>> THEN 0
    ELSE TotalMatches(Head(pairs).value)
             + SpansOfValues(Tail(pairs))

\* the record rendered in this run has no content
ContentAbsent == product_row > 0 /\ df[product_row]["catalog_content"].na

SourceComplete == csv_exists /\ csv_parses /\ required_columns \subseteq df_columns

(***************************************************************************)
(* C1: when the key scan finds a key, the separators of the split are      *)
(* exactly the keys the scan found, in order (also when one key is a       *)
(* suffix of another or repeats), one block is emitted per key, block i    *)
(* begins with key i in bold markers, and the blocks are the output in     *)
(* that order.                                                             *)
(***************************************************************************)
C1_BlocksFollowKeys ==
    InKeysBranch =>
        /\ Len(call.values) = 2 * Len(call.keys) + 1
        /\ \A i \in 1..Len(call.keys) : call.values[2 * i] = call.keys[i]
        /\ Len(call.pairs) = Len(call.keys)
        /\ formatted_description = Join(<<"\n", "\n">>, FormatLines(call.pairs))
        /\ \A i \in 1..Len(call.keys) :
               HasAt(FormatLines(call.pairs)[i], Bold(call.keys[i]) \o <<" ">>, 1)

C1_Witness ==
    /\ InKeysBranch
    /\ Len(call.pairs) >= 2
    /\ \E i, j \in 1..Len(call.keys) : ProperSuffix(call.keys[j], call.keys[i])

(***************************************************************************)
(* C2 as stated: without a key the output is the trimmed non-empty         *)
(* sentence fragments, each behind the bullet glyph, joined by one         *)
(* newline, every line of the output starting with the bullet glyph.       *)
(***************************************************************************)
C2_AsStated ==
    InNoKeysBranch =>
        /\ formatted_description = Join(NL, Bulleted(Fragments(raw_description, 1)))
        /\ EveryLineBulleted(formatted_description)

(***************************************************************************)
(* C2 amended: without a key the output is the keyword-emphasised bullet   *)
(* list: with the emphasis tags removed it is the trimmed non-empty        *)
(* sentence fragments in input order, each behind the bullet glyph,        *)
(* joined by one newline; every line starts with the bullet glyph when no  *)
(* fragment holds a line break; a white-space input gives the empty text.  *)
(***************************************************************************)
C2_BulletList ==
    InNoKeysBranch =>
        LET bullets == Bulleted(Fragments(raw_description, 1))
        IN  /\ StripSpans(formatted_description, 1) = Join(NL, bullets)
            /\ CountOf(Bullet, formatted_description) = Len(bullets)
            /\ (\A i \in 1..Len(bullets) : \A j \in 1..Len(bullets[i]) :
                    bullets[i][j] # "\n")
                   => EveryLineBulleted(formatted_description)
            /\ (\A j \in 1..Len(raw_description) : IsSpace(raw_description[j]))
                   => formatted_description = <<>>

C2_Witness ==
    /\ InNoKeysBranch
    /\ Len(call.sentences) >= 2
    /\ Len(Bulleted(Fragments(raw_description, 1))) >= 2
    /\ \E p \in 1..Len(formatted_description) :
           /\ formatted_description[p] = "\n"
           /\ formatted_description[p - 1] = "."

(***************************************************************************)
(* C3: the emphasis pass wraps every occurrence of a keyword, in any       *)
(* casing, that stands as a whole word, in a span holding the matched      *)
(* text as it was written, wraps no occurrence that is part of a longer    *)
(* word, and leaves every other character as it was.                       *)
(***************************************************************************)
C3_WholeWordEmphasis ==
    Rendered =>
        /\ highlighted_raw_text = Emphasised(raw_description, 1)
        /\ StripSpans(highlighted_raw_text, 1) = raw_description
        /\ call.keys = <<>> =>
               formatted_description =
                   Emphasised(Join(NL, BulletLines(call.sentences)), 1)

C3_Witness ==
    /\ Rendered
    /\ \E p \in 1..Len(raw_description) :
           /\ WholeWordAt(raw_description, keywords_to_highlight[1], p)
           /\ ~HasAt(raw_description, keywords_to_highlight[1], p)
    /\ \E q \in 1..Len(raw_description) :
           PartOfWordAt(raw_description, keywords_to_highlight[1], q)
    /\ CountOf(OpenTag, highlighted_raw_text) = 3

(***************************************************************************)
(* C4 as stated: when the content field of the selected record is absent,  *)
(* the text handed to the formatter and to the raw highlight pass is       *)
(* 'No description available.', which the keyword emphasis leaves as it    *)
(* is, and no error is reported.                                           *)
(***************************************************************************)
C4_AsStated ==
    (pc \in {"described", "done"} /\ ContentAbsent) =>
        /\ raw_description = FallbackText
        /\ highlighted_raw_text = FallbackText
        /\ format_calls = 1

(***************************************************************************)
(* C5: the formatter and the raw highlight pass run only when the file     *)
(* was found, read and has the three required columns; a run on a missing  *)
(* file or on a frame without a required column reports an error and       *)
(* makes no formatting call.                                               *)
(***************************************************************************)
C5_FormatOnlyOnCompleteSource ==
    /\ (format_calls > 0 \/ raw_highlights > 0
            \/ formatted_description # <<>> \/ highlighted_raw_text # <<>>)
           => SourceComplete
    /\ (pc = "done" /\ ~csv_exists) =>
           (message = "file_not_found" /\ format_calls = 0 /\ raw_highlights = 0)
    /\ (pc = "done" /\ csv_exists /\ csv_parses
            /\ ~(required_columns \subseteq df_columns)) =>
           (message = "missing_columns" /\ format_calls = 0 /\ raw_highlights = 0)

C5_Witness ==
    /\ pc = "done"
    /\ csv_exists
    /\ csv_parses
    /\ df_columns = {"sample_id", "catalog_content"}
    /\ Len(df) = 1
    /\ message = "missing_columns"
    /\ format_calls = 0

(***************************************************************************)
(* C7: in the keys branch the pairing loop never reads past the end of     *)
(* the split sequence: the sequence has odd length, every odd index the    *)
(* loop visits has a successor, no error is raised and every key is        *)
(* emitted with a value, which may be empty.                               *)
(***************************************************************************)
C7_PairingLoopInRange ==
    (format_calls = 1 /\ call.keys # <<>>) =>
        /\ ~call.raised
        /\ Len(call.values) % 2 = 1
        /\ \A i \in 1..(Len(call.values) - 1) :
               i % 2 = 1 => i + 1 <= Len(call.values) - 1
        /\ 2 * Len(call.pairs) = Len(call.values) - 1

C7_Witness ==
    /\ InKeysBranch
    /\ Len(call.values) >= 5
    /\ call.values[Len(call.values)] = <<>>
    /\ call.pairs[Len(call.pairs)].value = <<>>

(***************************************************************************)
(* C8: with the keywords applied in list order, each pass over the output  *)
(* of the one before, no pass matches inside a tag or inside a wrapped     *)
(* occurrence; in the final text the spans are not nested and every tag    *)
(* a pass inserted is whole.                                               *)
(***************************************************************************)
C8_PassesLeaveMarkupAlone ==
    Rendered =>
        /\ MarkupSafe(raw_description)
        /\ highlighted_raw_text =
               PassTexts(raw_description, Len(keywords_to_highlight))
                   [Len(keywords_to_highlight) + 1]
        /\ \A i \in 1..Len(call.pairs) : MarkupSafe(call.pairs[i].value)
        /\ call.keys = <<>> => MarkupSafe(Join(NL, BulletLines(call.sentences)))

C8_Witness ==
    /\ Rendered
    /\ \E p \in 1..Len(raw_description) :
           /\ KeywordMatch(keywords_to_highlight[3], raw_description, p)
           /\ HasAtIgnoreCase(raw_description, keywords_to_highlight[4], p)
    /\ CountOf(OpenTag, highlighted_raw_text) >= 1

(***************************************************************************)
(* C9: in the keys branch the keys and values emitted, read in turn with   *)
(* white space allowed around each value, are the input from its first     *)
(* key on; the text before the first key is segment 0 and in no block;     *)
(* the output without its emphasis spans is the plain lines, and every     *)
(* span of the output comes from a value, none from a key.                 *)
(***************************************************************************)
C9_OnlySegmentZeroIsLost ==
    InKeysBranch =>
        LET first == FirstKeyStart(raw_description)
        IN  /\ first > 0
            /\ call.values[1] = SubSeq(raw_description, 1, first - 1)
            /\ Rebuilds(SubSeq(raw_description, first, Len(raw_description)),
                        call.pairs)
            /\ StripSpans(formatted_description, 1) =
                   Join(<<"\n", "\n">>, PlainLines(call.pairs))
            /\ CountOf(OpenTag, formatted_description) = SpansOfValues(call.pairs)

C9_Witness ==
    /\ InKeysBranch
    /\ call.values[1] # <<>>
    /\ \E i \in 1..Len(call.pairs) :
           /\ WholeWordAt(call.pairs[i].key, keywords_to_highlight[5], 1)
           /\ call.pairs[i].value # call.values[2 * i + 1]
    /\ CountOf(OpenTag, formatted_description) = 2

(***************************************************************************)
(* C10 as stated: when the source is complete and an identifier of the     *)
(* store is the selection, the run makes exactly one formatter call, on    *)
(* the content of the record with that identifier.                         *)
(***************************************************************************)
C10_AsStated ==
    (pc = "done" /\ SourceComplete /\ selected_id \in sample_ids) =>
        /\ format_calls = 1
        /\ product_row > 0
        /\ df[product_row]["sample_id"] = selected_id

====
